---- MODULE Spec2Model ----
(***************************************************************************)
(* persistent-counter: the server actions of src/app/actions/counter.ts,   *)
(* the reset route handler (POST), the Redis inactivity lease written by   *)
(* setResetKey and the background worker that turns the lease's expiry     *)
(* into a POST to the reset endpoint.                                      *)
(*                                                                         *)
(* Every server action is a sequence of awaited database / Redis calls;    *)
(* each awaited call is one atomic step, and the steps of concurrent       *)
(* requests interleave freely.  Time is a global clock in seconds that     *)
(* advances in ticks of TickSeconds.                                       *)
(***************************************************************************)
EXTENDS Integers, Sequences, FiniteSets, TLC

\* ---------------------------------------------------------------- bounds

\* The clock advances TicksPerWindow times per inactivity window.
TicksPerWindow == 2

\* The clock stops after MaxTicks ticks.
MaxTicks == 4

\* incrementCounter is not started on a row that already holds MaxValue.
MaxValue == 2

\* No request is started while MaxPending realtime events are undelivered.
MaxPending == 2

\* ------------------------------------------------------ program constants

\* Time to live of the reset key, in seconds.
REDIS_TTL == 1200

TickSeconds == REDIS_TTL \div TicksPerWindow

MaxTime == MaxTicks * TickSeconds

\* The request slots: the requests (server actions, POSTs) in flight at once.
Procs == {"r1", "r2"}

\* The key setResetKey writes.
ResetKey == "reset_counter"

\* Values of the x-secret header and of process.env.RESET_SECRET.  A missing
\* header reads as null, an unset environment variable as undefined.
HeaderNull == "null"
EnvUndefined == "undefined"
WorkerSecret == "s3cret"
Headers == {HeaderNull, "wrong", WorkerSecret}

\* "No row" (findFirst's null) and "no Date taken yet".
Null == [id |-> 0, value |-> 0]
NoDate == -1

Ops == {"getCounter", "incrementCounter", "decrementCounter", "POST"}

VARIABLES
  now,           \* the wall clock, in seconds
  table,         \* the Counter table: a sequence of rows, a row's id is its index
  redis,         \* the Redis keyspace: a set of [key, expireAt]
  expired,       \* expiry events published by Redis and not yet handled by the worker
  RESET_SECRET,  \* process.env.RESET_SECRET of the deployment
  call,          \* per request slot: the running action and its local constants
  since,         \* requests started since all slots were last idle (3: three or more)
  prev,          \* "POST" when the request that ran last was an authorized reset, alone
  lastRenewal,   \* the time the pending lease was last renewed, NoDate if none is pending
  component,     \* a Counter component: mounted or not, the value it displays, and
                 \* the realtime UPDATE payloads on their way to it
  poll           \* the running invocation of the reset-counter Edge Function

vars == <<now, table, redis, expired, RESET_SECRET, call, since, prev, lastRenewal,
          component, poll>>

\* A request slot that runs nothing.
Idle == [op |-> "none", pc |-> "idle", secret |-> "none", counter |-> Null,
         now |-> NoDate, date |-> NoDate, updated |-> Null, status |-> 0]

\* ------------------------------------------------------------ the database

\* What an action keeps of a row it read or wrote: its id and its value.
RowOf(t, i) == [id |-> i, value |-> t[i].value]

\* An update that writes the value and leaves last_updated as it was.
PrismaUpdate_KeepsDate(t, i, v, d) == [t EXCEPT ![i].value = v]

\* prisma.counter.update({where: {id}, data: {value, last_updated}}).
PrismaUpdate(t, i, v, d) == [t EXCEPT ![i] = [value |-> v, last_updated |-> d]]

\* prisma.counter.create({data: {value, last_updated}}).
PrismaCreate(t, v, d) == Append(t, [value |-> v, last_updated |-> d])

\* -------------------------------------------------------------- the lease

\* A set that leaves an existing key alone (SET ... NX): no renewal.
RedisSet_NX(r, k, ttl, t) ==
  IF \E e \in r : e.key = k THEN r ELSE r \cup {[key |-> k, expireAt |-> t + ttl]}

\* A set that adds a deadline and keeps the key's previous one.
RedisSet_Stacking(r, k, ttl, t) == r \cup {[key |-> k, expireAt |-> t + ttl]}

\* redis.set(key, "1", "EX", ttl): the key's previous entry is replaced.
RedisSet(r, k, ttl, t) == {e \in r : e.key # k} \cup {[key |-> k, expireAt |-> t + ttl]}

\* Entries whose time to live has run out at time t.
Lapsed(r, t) == {e \in r : e.expireAt <= t}

\* ------------------------------------------------------- the server actions

\* A check that lets every request through while RESET_SECRET is unset.
Authorized_UnsetAllows(header, secret) == header = secret \/ secret = EnvUndefined

\* The route handler's check of the x-secret header: secret !== RESET_SECRET
\* rejects.  null and undefined are different values.
Authorized(header, secret) == header = secret

\* AfterGetCounter without decrementCounter's early return at value <= 0.
AfterGetCounter_NoFloor(o, c) ==
  CASE o = "getCounter" -> "ret"
    [] o = "incrementCounter" -> "newDate"
    [] o = "decrementCounter" -> "newDate"
    [] o = "POST" -> IF c.value = 0 THEN "ret" ELSE "newDate"

\* AfterGetCounter with decrementCounter's early return only below zero.
AfterGetCounter_StrictFloor(o, c) ==
  CASE o = "getCounter" -> "ret"
    [] o = "incrementCounter" -> "newDate"
    [] o = "decrementCounter" -> IF c.value < 0 THEN "ret" ELSE "newDate"
    [] o = "POST" -> IF c.value = 0 THEN "ret" ELSE "newDate"

\* AfterGetCounter without updateCounterToZero's early return at value 0.
AfterGetCounter_ResetAlways(o, c) ==
  CASE o = "getCounter" -> "ret"
    [] o = "incrementCounter" -> "newDate"
    [] o = "decrementCounter" -> IF c.value <= 0 THEN "ret" ELSE "newDate"
    [] o = "POST" -> "newDate"

\* AfterGetCounter with a getCounter that goes on to reset a row that holds a
\* value.
AfterGetCounter_GetCounterResets(o, c) ==
  CASE o = "getCounter" -> IF c.value = 0 THEN "ret" ELSE "newDate"
    [] o = "incrementCounter" -> "newDate"
    [] o = "decrementCounter" -> IF c.value <= 0 THEN "ret" ELSE "newDate"
    [] o = "POST" -> IF c.value = 0 THEN "ret" ELSE "newDate"

\* Where an action continues once getCounter has returned the row c: getCounter
\* returns it, decrementCounter returns it when its value is <= 0,
\* updateCounterToZero (run by POST) returns it when its value is 0, and the
\* others go on to build their update.
AfterGetCounter(o, c) ==
  CASE o = "getCounter" -> "ret"
    [] o = "incrementCounter" -> "newDate"
    [] o = "decrementCounter" -> IF c.value <= 0 THEN "ret" ELSE "newDate"
    [] o = "POST" -> IF c.value = 0 THEN "ret" ELSE "newDate"

\* NewValue with decrementCounter's update copied from incrementCounter's.
NewValue_DecrementAdds(o, c) ==
  CASE o = "incrementCounter" -> c.value + 1
    [] o = "decrementCounter" -> c.value + 1
    [] o = "POST" -> 0

\* NewValue with a reset that writes back the value it read.
NewValue_ResetKeepsValue(o, c) ==
  CASE o = "incrementCounter" -> c.value + 1
    [] o = "decrementCounter" -> c.value - 1
    [] o = "POST" -> c.value

\* The value an action's update writes, from the row c it read.
NewValue(o, c) ==
  CASE o = "incrementCounter" -> c.value + 1
    [] o = "decrementCounter" -> c.value - 1
    [] o = "POST" -> 0

\* AfterUpdate with no call of setResetKey: the mutations return at once.
AfterUpdate_NoLease(o) == "ret"

\* The step after an action's update: the mutations renew the lease,
\* updateCounterToZero returns.
AfterUpdate(o) == IF o = "POST" THEN "ret" ELSE "setResetKey"

\* ------------------------------------------------------------ the component

\* No Counter component is open.
Unmounted == [mounted |-> FALSE, value |-> 0, channel |-> <<>>,
              info |-> "null", error |-> "null"]

\* The message the subscription callback sets.
ResetMessage == "The counter has automatically been reset for inactivity."

\* The age, in minutes, below which the callback takes an update to 0 for a
\* reset.
InfoMinutes == 1

\* The Counter component rendered by HomePage from the row getCounter returned
\* (value v), subscribed to the UPDATE events of the Counter table.
Mounted(v) == [mounted |-> TRUE, value |-> v, channel |-> <<>>,
               info |-> "null", error |-> "null"]

\* The request slot that carries the actions handleUpdate calls.
ClientSlot == "r1"

\* The action o called in slot p is one handleUpdate calls from the component.
FromComponent(p, o) ==
  component.mounted /\ p = ClientSlot /\ o \in {"incrementCounter", "decrementCounter"}

\* Buttons that stay rendered beside the error text.
ButtonEnabled_BesideError(p, o) ==
  FromComponent(p, o) => (o = "decrementCounter" => component.value # 0)

\* The -1 button is disabled while the component displays 0, and a component
\* with an error renders the error text in place of its buttons.
ButtonEnabled(p, o) ==
  FromComponent(p, o)
    => /\ component.error = "null"
       /\ o = "decrementCounter" => component.value # 0

\* handleUpdate before it calls the action: setError(null); setInfo(null).
Clicked(c) == [c EXCEPT !.error = "null", !.info = "null"]

\* handleUpdate's .catch(() => setError(...)) when the action o rejects.
Rejected(c, o) ==
  [c EXCEPT !.error = IF o = "incrementCounter" THEN "Error incrementing"
                                                ELSE "Error decrementing"]

\* What the component renders: the error text alone when there is an error,
\* else the value and the info message.
Render(c) ==
  IF c.error # "null" THEN [error |-> c.error]
                      ELSE [value |-> c.value, info |-> c.info]

\* payload.new of an UPDATE event: the row's new value and last_updated.  cause
\* records the operation that made the update; the payload does not carry it.
Payload(v, d, o) == [value |-> v, last_updated |-> d, cause |-> o]

\* The subscription callback on the payload e at time n: setCounter, and the
\* reset message when the row is at 0 and was updated less than a minute ago.
Received(c, e, n) ==
  [c EXCEPT !.value = e.value,
            !.info = IF (n - e.last_updated) < InfoMinutes * 60 /\ e.value = 0
                       THEN ResetMessage ELSE @]

\* Supabase Realtime: an UPDATE of the row is broadcast to the subscribed
\* component with the payload e.
Broadcast(c, e) == IF c.mounted THEN [c EXCEPT !.channel = Append(@, e)] ELSE c

\* handleUpdate's .then((data) => { setCounter({value: data.value, ...});
\* setInfo('Counter updated!') }) when the action resolves with the row r.
Resolved(c, r) == [c EXCEPT !.value = r.value, !.info = "Counter updated!"]

\* The row an action returns: updated, or counter on an early return.
Returns(c) == IF c.updated # Null THEN c.updated ELSE c.counter

\* -------------------------------------------------------- the Edge Function

\* The idle time, in minutes, the reset-counter Edge Function compares with.
PollMinutes == 20

\* No invocation of the Edge Function is running.
PollIdle == [pc |-> "idle",
             counter |-> [id |-> 0, value |-> 0, last_updated |-> NoDate],
             now |-> NoDate]

\* An Edge Function that resets from PollMinutes of idleness on.
AfterPollRead_AtWindow(c, n) ==
  IF (n - c.last_updated) >= PollMinutes * 60
    THEN IF c.value = 0 THEN "idle" ELSE "update"
    ELSE "idle"

\* The Edge Function's step 3 on the row c it read and the Date n it took:
\* diffMinutes = (now - lastUpdated) / (1000 * 60), a fraction; if it is > 20
\* and the value is not 0 the function goes on to its update, else it answers
\* that no reset is needed.  Times are in seconds here.
AfterPollRead(c, n) ==
  IF (n - c.last_updated) > PollMinutes * 60
    THEN IF c.value = 0 THEN "idle" ELSE "update"
    ELSE "idle"

\* ----------------------------------------------------------- observations

Min(a, b) == IF a < b THEN a ELSE b

OthersIdle(p) == \A q \in Procs \ {p} : call[q].pc = "idle"

\* A request starts: one more since the slots were last all idle.  What ran
\* before matters only to a request that starts alone.
StartedSince == Min(3, since + 1)
StartedPrev == IF since = 0 THEN prev ELSE "none"

\* Request p returns.  An authorized reset that was the only request since the
\* slots were last idle is remembered.
ReturnedSince(p) == IF OthersIdle(p) THEN 0 ELSE since
ReturnedPrev(p) ==
  IF since = 1 /\ call[p].op = "POST" /\ call[p].status = 200 THEN "POST" ELSE "none"

\* ------------------------------------------------------------------ Init

\* The deployment's setup script has created the table and inserted its single
\* row (value 0, last_updated now()); nothing runs and no lease is pending.
Setup(t, secrets) ==
  /\ now = 0
  /\ table = t
  /\ redis = {}
  /\ expired = 0
  /\ RESET_SECRET \in secrets
  /\ call = [p \in Procs |-> Idle]
  /\ since = 0
  /\ prev = "none"
  /\ lastRenewal = NoDate
  /\ poll = PollIdle

\* Setup with no Counter component open.
SetupHeadless(t, secrets) == Setup(t, secrets) /\ component = Unmounted

\* The documented deployment: the row inserted, RESET_SECRET configured.
Init == SetupHeadless(<<[value |-> 0, last_updated |-> 0]>>, {WorkerSecret})

\* The same, on a server whose RESET_SECRET may also be unset.
InitAnySecret ==
  SetupHeadless(<<[value |-> 0, last_updated |-> 0]>>, {EnvUndefined, WorkerSecret})

\* A deployment whose Counter table is still empty.
InitEmpty == SetupHeadless(<<>>, {WorkerSecret})

\* The documented deployment with the page open in one browser tab.
InitUI == Setup(<<[value |-> 0, last_updated |-> 0]>>, {WorkerSecret}) /\ component = Mounted(0)

\* --------------------------------------------------------------- actions

\* A client calls getCounter (page load), incrementCounter or decrementCounter.
Call(p, o) ==
  /\ call[p].pc = "idle"
  /\ Len(component.channel) < MaxPending
  /\ ButtonEnabled(p, o)
  /\ component' = IF FromComponent(p, o) THEN Clicked(component) ELSE component
  /\ call' = [call EXCEPT ![p] = [Idle EXCEPT !.op = o, !.pc = "findFirst"]]
  /\ since' = StartedSince
  /\ prev' = StartedPrev
  /\ UNCHANGED <<now, table, redis, expired, RESET_SECRET, lastRenewal, poll>>

\* POST /api/reset-counter with the given x-secret header.  The worker, the
\* only holder of the secret, posts once per expiry event it received.
POST(p, header) ==
  /\ call[p].pc = "idle"
  /\ Len(component.channel) < MaxPending
  /\ header = WorkerSecret => expired > 0
  /\ expired' = IF header = WorkerSecret THEN expired - 1 ELSE expired
  /\ call' = [call EXCEPT ![p] =
       IF Authorized(header, RESET_SECRET)
         THEN [Idle EXCEPT !.op = "POST", !.secret = header, !.pc = "findFirst"]
         ELSE [Idle EXCEPT !.op = "POST", !.secret = header, !.pc = "ret",
                           !.status = 401]]
  /\ since' = StartedSince
  /\ prev' = StartedPrev
  /\ UNCHANGED <<now, table, redis, RESET_SECRET, lastRenewal, component, poll>>

\* getCounter: prisma.counter.findFirst().  Without an orderBy the database
\* may return any row.
FindFirst(p) ==
  /\ call[p].pc = "findFirst"
  /\ \/ /\ table = <<>>
        /\ call' = [call EXCEPT ![p].pc = "now"]
     \/ \E i \in 1..Len(table) :
          /\ call[p].op = "incrementCounter" => table[i].value < MaxValue
          /\ call' = [call EXCEPT ![p].counter = RowOf(table, i),
                                  ![p].pc = AfterGetCounter(call[p].op, RowOf(table, i)),
                                  ![p].status = 200]
  /\ UNCHANGED <<now, table, redis, expired, RESET_SECRET, since, prev, lastRenewal, component, poll>>

\* getCounter: const now = new Date(), used when there is no row.
GetNow(p) ==
  /\ call[p].pc = "now"
  /\ call' = [call EXCEPT ![p].now = now, ![p].pc = "create"]
  /\ UNCHANGED <<now, table, redis, expired, RESET_SECRET, since, prev, lastRenewal, component, poll>>

\* getCounter: counter ??= prisma.counter.create({value: 0, last_updated: now}).
Create(p) ==
  /\ call[p].pc = "create"
  /\ table' = PrismaCreate(table, 0, call[p].now)
  /\ call' = [call EXCEPT ![p].counter = RowOf(table', Len(table')),
                          ![p].pc = AfterGetCounter(call[p].op, RowOf(table', Len(table'))),
                          ![p].status = 200]
  /\ UNCHANGED <<now, redis, expired, RESET_SECRET, since, prev, lastRenewal, component, poll>>

\* new Date() in the data of the action's update, taken before the query is sent.
NewDate(p) ==
  /\ call[p].pc = "newDate"
  /\ call' = [call EXCEPT ![p].date = now, ![p].pc = "update"]
  /\ UNCHANGED <<now, table, redis, expired, RESET_SECRET, since, prev, lastRenewal, component, poll>>

\* prisma.counter.update: the row read earlier gets the value computed from
\* that read and the date taken.  The database broadcasts the UPDATE.
Update(p) ==
  /\ call[p].pc = "update"
  /\ table' = PrismaUpdate(table, call[p].counter.id,
                           NewValue(call[p].op, call[p].counter), call[p].date)
  /\ call' = [call EXCEPT ![p].updated = RowOf(table', call[p].counter.id),
                          ![p].pc = AfterUpdate(call[p].op)]
  /\ component' = Broadcast(component, Payload(NewValue(call[p].op, call[p].counter),
                                                call[p].date, call[p].op))
  /\ UNCHANGED <<now, redis, expired, RESET_SECRET, since, prev, lastRenewal, poll>>

\* An update that throws after the row was written.
UpdateFails_AfterWrite(p) ==
  /\ call[p].pc = "update"
  /\ table' = PrismaUpdate(table, call[p].counter.id,
                           NewValue(call[p].op, call[p].counter), call[p].date)
  /\ call' = [call EXCEPT ![p].pc = "ret", ![p].status = 500]
  /\ UNCHANGED <<now, redis, expired, RESET_SECRET, since, prev, lastRenewal, component, poll>>

\* prisma.counter.update throws (the store cannot be reached): the action
\* rejects, POST answers 500.
UpdateFails(p) ==
  /\ call[p].pc = "update"
  /\ call' = [call EXCEPT ![p].pc = "ret", ![p].status = 500]
  /\ UNCHANGED <<now, table, redis, expired, RESET_SECRET, since, prev, lastRenewal, component, poll>>

\* setResetKey: redis.set("reset_counter", "1", "EX", REDIS_TTL).  Redis expires
\* a lapsed key, publishing its expiry, before it sets the new one.
SetResetKey(p) ==
  /\ call[p].pc = "setResetKey"
  /\ redis' = RedisSet(redis, ResetKey, REDIS_TTL, now)
  /\ expired' = expired + Cardinality({e \in Lapsed(redis, now) : e.key = ResetKey})
  /\ lastRenewal' = now
  /\ call' = [call EXCEPT ![p].pc = "ret"]
  /\ UNCHANGED <<now, table, RESET_SECRET, since, prev, component, poll>>

\* redis.set throws: the action rejects after its update was committed.
SetResetKeyFails(p) ==
  /\ call[p].pc = "setResetKey"
  /\ call' = [call EXCEPT ![p].pc = "ret", ![p].status = 500]
  /\ UNCHANGED <<now, table, redis, expired, RESET_SECRET, since, prev, lastRenewal, component, poll>>

\* The response reaches the caller and the request slot is free again.  A
\* mutation called from the component resolves into its setCounter, or
\* rejects into its setError.
Return(p) ==
  /\ call[p].pc = "ret"
  /\ since' = ReturnedSince(p)
  /\ prev' = ReturnedPrev(p)
  /\ call' = [call EXCEPT ![p] = Idle]
  /\ component' =
       IF FromComponent(p, call[p].op)
         THEN IF call[p].status = 200
                THEN Resolved(component, Returns(call[p]))
                ELSE Rejected(component, call[p].op)
         ELSE component
  /\ UNCHANGED <<now, table, redis, expired, RESET_SECRET, lastRenewal, poll>>

\* The component's subscription callback runs on the oldest undelivered
\* UPDATE payload: setCounter({value: payload.new.value, ...}).
Deliver ==
  /\ component.mounted
  /\ component.channel # <<>>
  /\ component' = [Received(component, Head(component.channel), now)
                     EXCEPT !.channel = Tail(component.channel)]
  /\ UNCHANGED <<now, table, redis, expired, RESET_SECRET, call, since, prev, lastRenewal, poll>>

\* The component's timer clears the info message after 5 seconds.
InfoTimeout ==
  /\ component.mounted
  /\ component.info # "null"
  /\ component' = [component EXCEPT !.info = "null"]
  /\ UNCHANGED <<now, table, redis, expired, RESET_SECRET, call, since, prev, lastRenewal, poll>>

\* The cron job invokes the Edge Function, which selects the single row.
PollSelect ==
  /\ poll.pc = "idle"
  /\ Len(table) = 1
  /\ Len(component.channel) < MaxPending
  /\ poll' = [poll EXCEPT !.counter = [id |-> 1, value |-> table[1].value,
                                       last_updated |-> table[1].last_updated],
                          !.pc = "now"]
  /\ UNCHANGED <<now, table, redis, expired, RESET_SECRET, call, since, prev, lastRenewal,
                 component>>

\* The Edge Function takes const now = new Date() and decides.
PollNow ==
  /\ poll.pc = "now"
  /\ poll' = [poll EXCEPT !.now = now, !.pc = AfterPollRead(poll.counter, now)]
  /\ UNCHANGED <<now, table, redis, expired, RESET_SECRET, call, since, prev, lastRenewal,
                 component>>

\* The Edge Function's update({value: 0, last_updated: now}).eq('id', counter.id).
PollUpdate ==
  /\ poll.pc = "update"
  /\ table' = PrismaUpdate(table, poll.counter.id, 0, poll.now)
  /\ component' = Broadcast(component, Payload(0, poll.now, "poll"))
  /\ poll' = [poll EXCEPT !.pc = "idle"]
  /\ UNCHANGED <<now, redis, expired, RESET_SECRET, call, since, prev, lastRenewal>>

\* Redis deletes a key whose time to live has run out and publishes the
\* expiry event the worker listens for.
Expire ==
  /\ \E e \in Lapsed(redis, now) : redis' = redis \ {e}
  /\ expired' = expired + 1
  /\ lastRenewal' = NoDate
  /\ UNCHANGED <<now, table, RESET_SECRET, call, since, prev, component, poll>>

\* Time passes.
Tick ==
  /\ now + TickSeconds <= MaxTime
  /\ now' = now + TickSeconds
  /\ UNCHANGED <<table, redis, expired, RESET_SECRET, call, since, prev, lastRenewal, component, poll>>

\* The steps of request slot p on a reachable store, the row present.
Request(p) ==
  \/ \E o \in Ops \ {"POST"} : Call(p, o)
  \/ \E h \in Headers : POST(p, h)
  \/ FindFirst(p)
  \/ NewDate(p)
  \/ Update(p)
  \/ SetResetKey(p)
  \/ Return(p)

\* The store or Redis fails under request p.
Fault(p) == UpdateFails(p) \/ SetResetKeyFails(p)

\* getCounter's creation of the row, which it runs when findFirst found none.
Creation(p) == GetNow(p) \/ Create(p)

Next == (\E p \in Procs : Request(p)) \/ Expire \/ Tick

NextFaults == Next \/ (\E p \in Procs : Fault(p))

NextFirst == \E p \in Procs : Request(p) \/ Creation(p)

NextUI == (\E p \in Procs : Request(p)) \/ Deliver \/ InfoTimeout

NextUIFaults == NextUI \/ (\E p \in Procs : Fault(p))

\* The Edge Function, invoked by the cron job.
Poll == PollSelect \/ PollNow \/ PollUpdate

NextPoll == Request(ClientSlot) \/ Tick \/ Poll

\* The documented deployment, its store and its Redis reachable.
Spec == Init /\ [][Next]_vars

\* The documented deployment with a store and a Redis that may fail.
SpecFaults == Init /\ [][NextFaults]_vars

\* A server whose RESET_SECRET may be unset.
SpecAnySecret == InitAnySecret /\ [][Next]_vars

\* The first requests to reach an empty Counter table, before the clock's
\* first tick.
SpecFirst == InitEmpty /\ [][NextFirst]_vars

\* The page open in one browser tab while requests from that tab and from
\* elsewhere are served, before the clock's first tick.
SpecUI == InitUI /\ [][NextUI]_vars

\* The same, with a store and a Redis that may fail.
SpecUIFaults == InitUI /\ [][NextUIFaults]_vars

\* The polling variant: the cron job and the Edge Function reset the counter
\* while one client's requests are served; no worker listens for the lease's
\* expiry.
SpecPoll == Init /\ [][NextPoll]_vars

\* The server finishes every request it has accepted, Redis deletes a lapsed
\* key, the clock runs, and the worker's POST for an expiry event it received
\* is accepted by the server however busy the request slots are.  Nothing
\* obliges a client to call.
Serve(p) == FindFirst(p) \/ NewDate(p) \/ Update(p) \/ SetResetKey(p) \/ Return(p)

Fairness ==
  /\ \A p \in Procs : WF_vars(Serve(p))
  /\ WF_vars(Expire)
  /\ WF_vars(Tick)
  /\ SF_vars(\E p \in Procs : POST(p, WorkerSecret))

\* The documented deployment under Fairness.
LiveSpec == Init /\ [][Next]_vars /\ Fairness

\* ======================================================================
\* Claims
\* ======================================================================

Mutations == {"incrementCounter", "decrementCounter"}

AtRet(p, o) == call[p].op = o /\ call[p].pc = "ret"

\* C1: in every reachable state, whatever the interleaving of increments,
\* decrements and resets, every persisted counter value, and every value an
\* action read or returns, is >= 0.
C1_ValueNonNegative ==
  /\ \A i \in 1..Len(table) : table[i].value >= 0
  /\ \A p \in Procs : call[p].counter.value >= 0 /\ call[p].updated.value >= 0

\* C1 witness: two decrements that both read 1 have both written 0.
C1_Witness ==
  \E p, q \in Procs :
    /\ p # q
    /\ AtRet(p, "decrementCounter") /\ AtRet(q, "decrementCounter")
    /\ call[p].counter.value = 1 /\ call[q].counter.value = 1
    /\ call[p].updated.value = 0 /\ call[q].updated.value = 0
    /\ table[1].value = 0

\* C2: two incrementCounter calls that run concurrently (they are the only two
\* requests started since the server was last idle, and neither has returned
\* to its caller) and both succeed leave the counter at the starting value
\* plus 2.  The starting value is the smaller of the two values read.
C2_NoLostUpdate ==
  \A p, q \in Procs :
    ( /\ p # q
      /\ AtRet(p, "incrementCounter") /\ AtRet(q, "incrementCounter")
      /\ call[p].status = 200 /\ call[q].status = 200
      /\ call[p].counter.id = call[q].counter.id
      /\ since = 2 )
    => table[call[p].counter.id].value
         = Min(call[p].counter.value, call[q].counter.value) + 2

\* C3: updateCounterToZero never writes 0 over a row whose last_updated is less
\* than the window (REDIS_TTL seconds) old at the moment of the write.
C3_ResetSparesFreshActivity ==
  [][ \A p \in Procs :
        ( /\ call[p].op = "POST" /\ call[p].pc = "update"
          /\ call'[p].updated # Null )
        => now - table[call[p].counter.id].last_updated >= REDIS_TTL ]_vars

NoMutationRunning == \A p \in Procs : call[p].op \notin Mutations

\* A reset has committed 0 with the date it took.
ResetCommitted ==
  \E p \in Procs :
    /\ AtRet(p, "POST") /\ call[p].updated # Null
    /\ table[call[p].counter.id] = [value |-> 0, last_updated |-> call[p].date]

\* The counter holds a value, no mutation is running, and the pending lease,
\* if any, lapses before the clock stops.
IdleNonZero ==
  /\ table[1].value # 0
  /\ NoMutationRunning
  /\ \A e \in redis : e.expireAt <= MaxTime

\* C4: from a state where the counter holds a non-zero value and no mutation is
\* running, either a new mutation arrives or, with no client taking part, a
\* reset commits value 0 with last_updated set to the date the reset took.
C4_IdleCounterIsReset == IdleNonZero ~> (ResetCommitted \/ ~NoMutationRunning)

\* C4 witness: a reset has zeroed a counter that held 2, a window after its
\* last change, and no request but the reset is running.
C4_Witness ==
  \E p \in Procs :
    /\ AtRet(p, "POST") /\ call[p].counter.value = 2 /\ call[p].updated # Null
    /\ call[p].date = REDIS_TTL + TickSeconds
    /\ table[1] = [value |-> 0, last_updated |-> REDIS_TTL + TickSeconds]
    /\ OthersIdle(p)

\* C5: an expiry event is published only when REDIS_TTL seconds have passed
\* since the latest renewal of the lease: a renewal before the pending
\* deadline moves the deadline, and nothing fires at the old one.
C5_ExpiryOnlyAfterFullWindow ==
  [][ expired' > expired
        => lastRenewal # NoDate /\ now >= lastRenewal + REDIS_TTL ]_vars

\* C5 witness: the counter was last changed one tick into the first lease's
\* window, and the one expiry so far has fired a full window after that.
C5_Witness ==
  /\ expired = 1
  /\ redis = {}
  /\ now = REDIS_TTL + TickSeconds
  /\ table[1].value = 2
  /\ table[1].last_updated = TickSeconds
  /\ \A p \in Procs : call[p].pc = "idle"

\* C6: a second updateCounterToZero that directly follows a first one, with no
\* other request in between, performs no write: value and last_updated are
\* those the first call left.
C6_SecondResetWritesNothing ==
  \A p \in Procs :
    (prev = "POST" /\ since = 1 /\ AtRet(p, "POST") /\ call[p].status = 200)
    => /\ call[p].updated = Null
       /\ call[p].counter.value = 0
       /\ table[call[p].counter.id].value = 0

\* C6 witness: the second of two resets in a row has returned.
C6_Witness ==
  \E p \in Procs :
    /\ prev = "POST" /\ since = 1 /\ AtRet(p, "POST") /\ call[p].status = 200
    /\ call[p].updated = Null
    /\ table[1].last_updated > 0

\* C7: decrementCounter that reads value 0 returns at once: no row update, no
\* change of value or last_updated, no renewal of the lease.
C7_DecrementAtZeroIsNoOp ==
  [][ \A p \in Procs :
        ( /\ call[p].op = "decrementCounter" /\ call[p].pc = "findFirst"
          /\ call'[p].pc # "findFirst" /\ call'[p].counter.value = 0 )
        => /\ call'[p].pc = "ret" /\ call'[p].updated = Null
           /\ table' = table /\ redis' = redis /\ lastRenewal' = lastRenewal ]_vars

\* C7 witness: a decrement has returned the row it read at 0 while a lease set
\* earlier is still pending, with the deadline it had.
C7_Witness ==
  \E p \in Procs :
    /\ AtRet(p, "decrementCounter")
    /\ call[p].counter.value = 0 /\ call[p].updated = Null
    /\ table[1].value = 0
    /\ table[1].last_updated < now
    /\ redis = {[key |-> ResetKey, expireAt |-> REDIS_TTL]}

\* C8: updateCounterToZero that reads value 0 performs no commit, however long
\* the counter has been idle: value and last_updated stay as they are.
C8_ResetAtZeroIsNoOp ==
  [][ \A p \in Procs :
        ( /\ call[p].op = "POST" /\ call[p].pc = "findFirst"
          /\ call'[p].pc # "findFirst" /\ call'[p].counter.value = 0 )
        => /\ call'[p].pc = "ret" /\ call'[p].updated = Null
           /\ call'[p].status = 200
           /\ table' = table /\ redis' = redis ]_vars

\* C8 witness: a reset has returned without a write from a row at 0 that had
\* been idle for more than the window.
C8_Witness ==
  \E p \in Procs :
    /\ AtRet(p, "POST") /\ call[p].status = 200
    /\ call[p].counter.value = 0 /\ call[p].updated = Null
    /\ table[1].value = 0
    /\ now - table[1].last_updated > REDIS_TTL

\* C9: a POST whose x-secret header is missing or differs from RESET_SECRET,
\* also when RESET_SECRET is unset, is answered 401 at once: it never enters
\* updateCounterToZero and leaves the row and the lease as they are.
C9_UnauthorizedRejected ==
  [][ \A p \in Procs :
        ( /\ call[p].pc = "idle" /\ call'[p].op = "POST"
          /\ call'[p].secret # RESET_SECRET )
        => /\ call'[p].pc = "ret" /\ call'[p].status = 401
           /\ table' = table /\ redis' = redis /\ lastRenewal' = lastRenewal ]_vars

\* C9 witness: with RESET_SECRET unset, a POST without the header has been
\* answered 401 while the counter holds a value and a lease is pending.
C9_Witness ==
  \E p \in Procs :
    /\ RESET_SECRET = EnvUndefined
    /\ AtRet(p, "POST") /\ call[p].secret = HeaderNull /\ call[p].status = 401
    /\ table[1].value = 1
    /\ redis # {}

\* C10: at most one Counter row ever exists, also when several getCounter
\* calls find the table empty at the same time.
C10_SingleRow == Len(table) <= 1

\* C11: a mutation that ran alone and ended in a failure visible to its caller
\* (its update or its setResetKey failed) has left the row's value as it read
\* it: the failed operation is not applied.
C11_FailedMutationNotApplied ==
  \A p \in Procs :
    ( /\ since = 1 /\ call[p].op \in Mutations
      /\ call[p].pc = "ret" /\ call[p].status = 500 )
    => table[call[p].counter.id].value = call[p].counter.value

\* The value the row must hold once a mutation o and a reset that both wrote
\* have completed, when no write rests on a stale read: 0 if the reset came
\* last, and what o makes of 0 if the mutation came last.
DerivedFromZero(o) == IF o = "incrementCounter" THEN {0, 1} ELSE {0}

\* C12: when a mutation and a reset are the only two requests since the server
\* was last idle and both have written the row, the value after both is
\* derived from 0: the mutation's write never restores the value from before
\* the reset plus or minus 1.
C12_NoStaleWriteOverReset ==
  \A p, q \in Procs :
    ( /\ since = 2
      /\ call[p].op \in Mutations /\ call[p].pc = "ret" /\ call[p].updated # Null
      /\ AtRet(q, "POST") /\ call[q].updated # Null
      /\ call[p].counter.id = call[q].counter.id )
    => table[call[p].counter.id].value \in DerivedFromZero(call[p].op)

\* Nothing is in flight: no request is running and every realtime event has
\* been delivered to the component.
Quiescent ==
  /\ \A p \in Procs : call[p].pc = "idle"
  /\ component.channel = <<>>

\* C13: once every action response and every realtime UPDATE event has been
\* delivered to the mounted Counter component and nothing more is in flight,
\* the value the component displays is the persisted value, in whatever order
\* the responses and the events arrived.
C13_ObserversConverge ==
  (component.mounted /\ Quiescent) => component.value = table[1].value

\* C14: a mutation that has committed a change reaches its successful return
\* only through a setResetKey that leaves exactly one lease, with a full
\* window REDIS_TTL ahead; and there is never more than one lease, so the
\* mutations of one active period are followed by one expiry.
C14_OneLeaseRenewedInFull ==
  [][ /\ Cardinality(redis') <= 1
      /\ \A p \in Procs :
           ( /\ call[p].op \in Mutations /\ call[p].pc # "ret"
             /\ call'[p].pc = "ret" /\ call'[p].status = 200
             /\ call'[p].updated # Null )
           => redis' = {[key |-> ResetKey, expireAt |-> now + REDIS_TTL]} ]_vars

\* C14 witness: the second increment of an active period has renewed, one tick
\* into the window of the first lease, and the only lease is the new one.
C14_Witness ==
  \E p \in Procs :
    /\ AtRet(p, "incrementCounter") /\ call[p].status = 200
    /\ call[p].counter.value = 1 /\ call[p].updated.value = 2
    /\ call[p].date = TickSeconds /\ now = TickSeconds
    /\ expired = 0
    /\ redis = {[key |-> ResetKey, expireAt |-> TickSeconds + REDIS_TTL]}

PollWritesZeroAtNow ==
  /\ (poll' # poll /\ table' # table) => poll.pc = "update"
  /\ (poll.pc = "update" /\ poll' # poll)
       => table'[poll.counter.id] = [value |-> 0, last_updated |-> poll.now]

\* C16 as stated: a poll goes on to write 0 with last_updated = now exactly
\* when, at its read, the value is not 0 and now - last_updated is at least
\* the window of 20 minutes; a poll at exactly 20 minutes of idleness resets.
C16_PollResetsFromWindowOn ==
  [][ /\ PollWritesZeroAtNow
      /\ (poll.pc = "now" /\ poll' # poll)
           => ( poll'.pc = "update"
                <=> ( /\ poll.counter.value # 0
                      /\ now - poll.counter.last_updated >= PollMinutes * 60 ) ) ]_vars

\* C16 amended: a poll goes on to write 0 with last_updated = now exactly when,
\* at its read, the value is not 0 and now - last_updated is more than 20
\* minutes; a poll at exactly 20 minutes of idleness writes nothing.
C16_PollResetsAfterWindow ==
  [][ /\ PollWritesZeroAtNow
      /\ (poll.pc = "now" /\ poll' # poll)
           => ( poll'.pc = "update"
                <=> ( /\ poll.counter.value # 0
                      /\ now - poll.counter.last_updated > PollMinutes * 60 ) ) ]_vars

\* C16 witness: a poll that read a row holding 2 and last changed more than 20
\* minutes before has written 0 with the Date it took.
C16_Witness ==
  /\ poll.pc = "idle" /\ poll.counter.value = 2
  /\ poll.now - poll.counter.last_updated > PollMinutes * 60
  /\ table[1] = [value |-> 0, last_updated |-> poll.now]

\* C17: when two resets are the only two requests since the server was last
\* idle (so a reset that writes has read before the other wrote), at most one
\* of them writes the row: the episode has one commit and one last_updated.
C17_OverlappingResetsWriteOnce ==
  \A p, q \in Procs :
    (p # q /\ since = 2 /\ AtRet(p, "POST") /\ AtRet(q, "POST"))
    => (call[p].updated = Null \/ call[q].updated = Null)

\* No mutation commits while the reset in slot p runs: the reset is the only
\* request since the server was last idle, or the only other one is still
\* running and is a getCounter or another reset.
NoMutationDuring(p) ==
  \/ since = 1
  \/ since = 2 /\ \E q \in Procs \ {p} : call[q].op \in {"getCounter", "POST"}

\* C18 as stated: a reset that ran alone after a mutation's commit returns with
\* the row at value 0 and at last_updated the reset's time.
C18_ResetLeavesZeroAtItsTime ==
  \A p \in Procs :
    (call[p].status = 200 /\ AtRet(p, "POST") /\ since = 1)
    => table[call[p].counter.id] = [value |-> 0, last_updated |-> call[p].date]

\* C18 amended: a reset observes the value the latest commit left; when that
\* value is not 0 its write sets value 0 and last_updated to the time the
\* reset took, and when it is 0 the reset writes nothing; and if no mutation
\* commits until the reset returns, the value is 0 at its return.
C18_ResetZeroesObservedValue ==
  [][ \A p \in Procs :
        /\ ( /\ call[p].op = "POST" /\ call[p].pc = "findFirst"
             /\ call'[p].pc # "findFirst" )
           => /\ call'[p].counter.value = table[call'[p].counter.id].value
              /\ call'[p].counter.value = 0 <=> call'[p].pc = "ret"
        /\ (call[p].op = "POST" /\ call[p].pc = "update" /\ call'[p].pc = "ret")
           => /\ table'[call[p].counter.id] = [value |-> 0, last_updated |-> call[p].date]
              /\ call[p].date <= now
        /\ (call'[p].status = 200 /\ AtRet(p, "POST")' /\ NoMutationDuring(p)')
           => /\ table'[call'[p].counter.id].value = 0
              /\ call'[p].updated = Null => call'[p].counter.value = 0 ]_vars

\* C18 witness: a reset that ran alone has read the value 1 a mutation left
\* and has returned; the row holds 0 at the time the reset took.
C18_Witness ==
  \E p \in Procs :
    /\ since = 1 /\ AtRet(p, "POST") /\ call[p].status = 200
    /\ call[p].counter.value = 1 /\ call[p].updated # Null
    /\ call[p].date = now
    /\ table[1] = [value |-> 0, last_updated |-> now]

\* C19: getCounter resets the counter to 0 before returning it when more than
\* 20 minutes have passed since the last change: called on a row that holds a
\* value and is older than that, it returns value 0 and the row holds 0.
C19_GetCounterResetsIdleRow ==
  [][ \A p \in Procs :
        ( /\ call[p].op = "getCounter" /\ call[p].pc = "findFirst"
          /\ call'[p].pc = "ret"
          /\ now - table[call'[p].counter.id].last_updated > REDIS_TTL )
        => /\ call'[p].counter.value = 0
           /\ table'[call'[p].counter.id].value = 0 ]_vars

Max(a, b) == IF a > b THEN a ELSE b

\* C20: a mutation that ran with no other request interleaved, on the value v
\* it read, returns v + 1 (incrementCounter) or max(v - 1, 0)
\* (decrementCounter); when it wrote, the row holds the returned value with
\* last_updated the Date the call took, and decrementCounter on 0 took no Date
\* and wrote nothing.
C20_SequentialMutation ==
  \A p \in Procs :
    (since = 1 /\ call[p].op \in Mutations /\ call[p].pc = "ret" /\ call[p].status = 200)
    => LET v == call[p].counter.value
           r == Returns(call[p])
       IN  /\ call[p].op = "incrementCounter" => r.value = v + 1
           /\ call[p].op = "decrementCounter" => r.value = Max(v - 1, 0)
           /\ table[r.id].value = r.value
           /\ (call[p].op = "incrementCounter" \/ v > 0)
                => /\ call[p].updated # Null
                   /\ table[r.id].last_updated = call[p].date
                   /\ call[p].date # NoDate /\ call[p].date <= now
           /\ (call[p].op = "decrementCounter" /\ v = 0)
                => call[p].updated = Null /\ call[p].date = NoDate

\* C20 witness: a decrement that ran alone on value 2, one tick after the
\* row's previous change, has returned 1 and the row holds 1 at its Date.
C20_Witness ==
  \E p \in Procs :
    /\ since = 1 /\ AtRet(p, "decrementCounter") /\ call[p].status = 200
    /\ call[p].counter.value = 2 /\ call[p].updated.value = 1
    /\ call[p].date = TickSeconds
    /\ table[1] = [value |-> 1, last_updated |-> TickSeconds]

\* C21: the persisted last_updated never decreases: every commit by an
\* increment, a decrement or a reset leaves a last_updated that is >= the one
\* it replaces.
C21_LastUpdatedNeverDecreases ==
  [][ \A i \in 1..Len(table) :
        table'[i].last_updated >= table[i].last_updated ]_vars

\* The operations that reset the counter for inactivity: the reset endpoint's
\* updateCounterToZero and the Edge Function.
Resets == {"POST", "poll"}

\* C22: the component comes to show the message 'The counter has automatically
\* been reset for inactivity.' only on an UPDATE event that an inactivity reset
\* caused, never on one a client's mutation caused.
C22_ResetMessageOnlyForReset ==
  [][ ( /\ component.channel # <<>>
        /\ component'.channel = Tail(component.channel)
        /\ component.info # ResetMessage
        /\ component'.info = ResetMessage )
      => Head(component.channel).cause \in Resets ]_vars

\* No action and no reset is in flight.
NothingInFlight == \A p \in Procs : call[p].pc = "idle"

C24_ResetSparesCommitBeforeLateRenewal ==
  [][ \A p \in Procs :
        ( /\ call[p].op = "POST" /\ call[p].pc = "update"
          /\ call'[p].updated # Null
          /\ \E e \in redis : e.key = ResetKey /\ e.expireAt > now
          /\ lastRenewal > table[call[p].counter.id].last_updated )
        => now - table[call[p].counter.id].last_updated >= REDIS_TTL ]_vars

\* C25: once the component holds an error (an action it called has rejected),
\* every later step leaves the error as it is and the rendering the error text
\* alone, whatever realtime events arrive, and no mutation is issued from the
\* component.
C25_ErrorStateAbsorbing ==
  [][ component.error # "null"
      => /\ component'.error = component.error
         /\ Render(component') = [error |-> component.error]
         /\ ~(call[ClientSlot].pc = "idle" /\ call'[ClientSlot].op \in Mutations) ]_vars

\* C25 witness: the component holds an error; a mutation of another client,
\* started after the failed action returned, has committed and its event has
\* been delivered into the component's state; the error text alone is rendered.
C25_Witness ==
  /\ component.error # "null"
  /\ since = 1
  /\ component.channel = <<>>
  /\ \E q \in Procs \ {ClientSlot} :
       /\ call[q].op \in Mutations /\ call[q].updated # Null
       /\ component.value = call[q].updated.value
  /\ Render(component) = [error |-> component.error]

\* C26: a POST with the valid secret is answered 200 both when
\* updateCounterToZero found the row at 0 (no write) and when it wrote 0, and
\* 500 only when updateCounterToZero's update threw, the row left as it was.
C26_ResetEndpointAnswers ==
  [][ \A p \in Procs :
        ( /\ call[p].op = "POST" /\ call[p].secret = RESET_SECRET
          /\ call[p].pc # "ret" /\ call'[p].pc = "ret" )
        => \/ /\ call'[p].status = 200
              /\ call[p].pc = "findFirst"
              /\ call'[p].counter.value = 0 /\ call'[p].updated = Null
              /\ table' = table
           \/ /\ call'[p].status = 200
              /\ call[p].pc = "update"
              /\ call'[p].updated # Null
              /\ table'[call[p].counter.id] = [value |-> 0, last_updated |-> call[p].date]
           \/ /\ call'[p].status = 500
              /\ call[p].pc = "update"
              /\ call'[p].updated = Null
              /\ table' = table ]_vars

\* C26 witness: a POST with the valid secret has been answered 500 after its
\* update threw; the row still holds the value 2 the reset read.
C26_Witness ==
  \E p \in Procs :
    /\ AtRet(p, "POST") /\ call[p].secret = RESET_SECRET
    /\ call[p].status = 500
    /\ call[p].counter.value = 2 /\ call[p].updated = Null
    /\ table[1].value = 2

====
